---- MODULE Spec2Model ----
(***************************************************************************)
(* Model of advanced-vector/vector.h: RawMemory<T> (a move-only owner of a *)
(* raw block) and Vector<T> (a size plus one RawMemory).                   *)
(*                                                                         *)
(* The heap is a set of blocks; a block is a sequence of slots, each slot  *)
(* either Raw (no object) or holding the value of a constructed T.  Every  *)
(* public operation is one action.  An operation runs on a "machine" m     *)
(* (heap, vectors, counters of what the call did) and may throw at any of  *)
(* its fallible steps: m.budget = k > 0 makes the k-th fallible step       *)
(* throw, m.budget = 0 injects no failure.                                 *)
(***************************************************************************)
EXTENDS Integers, Sequences, FiniteSets, TLC

\* ---- bounds of the model ------------------------------------------------
MaxBlocks == 3      \* blocks the heap can hand out at one time
HeapSlots == 6      \* slots the heap can hand out at one time; operator new throws beyond
MaxVal    == 2      \* element values passed by callers are 1..MaxVal
MaxN      == 4      \* largest capacity and argument n, a client with one array
PairN     == 2      \* largest capacity and argument n, a client with two arrays
MaxFail   == 6      \* the injected failure hits fallible step 1..MaxFail

\* ---- encodings ------------------------------------------------------------
NULL    == 0        \* nullptr
Raw     == -1       \* a slot holding no object
Default == 0        \* the value of T()
Moved   == -2       \* the state of an object that has been moved from

Blocks  == 1..MaxBlocks
Vecs    == {1, 2}   \* the two Vector objects of the client
Tmp     == 3        \* the local Vector rhs_copy of operator=(const Vector&)
AllVecs == Vecs \cup {Tmp}
Values  == 1..MaxVal
RefBase == 10       \* argument RefBase + i: a reference to the array's own element i

VARIABLES
    heap,       \* heap[b] = [live, slots]
    vec,        \* vec[v]  = [alive, buffer_, capacity_, size_]
    policy,     \* "move": is_nothrow_move_constructible_v<T> || !is_copy_constructible_v<T>; "copy" otherwise
    once,       \* the client calls one operation on the arrays it holds, then stops
    ub,         \* an operation with undefined behaviour has been executed
    last,       \* what the last operation was and did
    pre,        \* heap and vec before the last operation
    appends     \* appends[v]: successful appends since Vector() with nothing else in between, or -1

vars == <<heap, vec, policy, once, ub, last, pre, appends>>

\* ---- small helpers --------------------------------------------------------
RECURSIVE SumOver(_, _)
SumOver(S, f) ==
    IF S = {} THEN 0
    ELSE LET x == CHOOSE y \in S : TRUE IN f[x] + SumOver(S \ {x}, f)

MinOf(S) == CHOOSE x \in S : \A y \in S : x <= y

RawSlots(n) == [i \in 1..n |-> Raw]

\* slot i of block b is storage the program may touch
InBlock(h, b, i) == b \in Blocks /\ h[b].live /\ i < Len(h[b].slots)

\* what slot i of block b holds; storage that is not there holds no object
At(h, b, i) == IF InBlock(h, b, i) THEN h[b].slots[i + 1] ELSE Raw

SetSlot(h, b, i, x) == [h EXCEPT ![b].slots[i + 1] = x]

UsedSlots(h) == SumOver({b \in Blocks : h[b].live}, [b \in Blocks |-> Len(h[b].slots)])

DeadVec == [alive |-> FALSE, buffer_ |-> NULL, capacity_ |-> 0, size_ |-> 0]

\* Vector() = default, and the member initialisers of lines 86-87 and 298
EmptyVec == [alive |-> TRUE, buffer_ |-> NULL, capacity_ |-> 0, size_ |-> 0]

\* the machine an operation starts on
Start(fail) ==
    [h |-> heap, vec |-> vec, budget |-> fail, inj |-> fail, threw |-> FALSE, bad |-> FALSE,
     ctor |-> 0, dtor |-> 0, xfer |-> 0, nalloc |-> 0, nfree |-> 0,
     abandoned |-> 0, ret |-> 0, log |-> <<>>, stale |-> FALSE]

\* the steps of a call in the order they happen: <<step, block, slot>>
Note(m, step, b, i) == [m EXCEPT !.log = Append(@, <<step, b, i>>)]

\* an access to slot i of block b that is not storage of the program: undefined, and
\* an access to released memory when b is a block that has been released
Wild(m, b, i) ==
    [m EXCEPT !.bad = TRUE, !.stale = @ \/ (b \in Blocks /\ ~m.h[b].live)]

\* a fallible step: throws when the injected failure is due
Tick(m) ==
    IF m.budget = 0 THEN m
    ELSE IF m.budget = 1 THEN [m EXCEPT !.threw = TRUE, !.budget = 0]
    ELSE [m EXCEPT !.budget = @ - 1]

\* ---- RawMemory<T> ---------------------------------------------------------
\* Allocate(n): operator new(n * sizeof(T)), nullptr for n = 0; m.ret is the block
Allocate(m, n) ==
    IF n = 0 THEN [m EXCEPT !.ret = NULL]
    ELSE LET t    == Tick(m)
             free == {b \in Blocks : ~t.h[b].live}
         IN IF t.threw THEN t
            ELSE IF free = {} \/ UsedSlots(t.h) + n > HeapSlots
                 THEN [t EXCEPT !.threw = TRUE]
            ELSE LET b == MinOf(free)
                 IN Note([t EXCEPT !.h[b] = [live |-> TRUE, slots |-> RawSlots(n)],
                                        !.nalloc = @ + 1, !.ret = b], "allocate", b, n)

\* Deallocate(buf): operator delete(buf); the objects still in the block are abandoned
Deallocate(m, b) ==
    IF b = NULL THEN m
    ELSE IF ~m.h[b].live THEN Wild(m, b, 0)
    ELSE Note([m EXCEPT !.h[b] = [live |-> FALSE, slots |-> <<>>],
                        !.nfree = @ + 1,
                        !.abandoned = @ + Cardinality({i \in 1..Len(m.h[b].slots) :
                                                          m.h[b].slots[i] # Raw})],
              "release", b, 0)

\* RawMemory::Swap on the data_ members of vectors v and w
RawSwap(vs, v, w) ==
    LET a == [vs EXCEPT ![v].buffer_ = vs[w].buffer_, ![w].buffer_ = vs[v].buffer_]
    IN [a EXCEPT ![v].capacity_ = a[w].capacity_, ![w].capacity_ = a[v].capacity_]

\* RawMemory::operator=(RawMemory&&) that forgets other.capacity_ = 0
RawMoveAssignKeepsCapacity(vs, v, w) ==
    LET s1 == [vs EXCEPT ![v].capacity_ = vs[w].capacity_]
        s2 == [s1 EXCEPT ![v].buffer_ = s1[w].buffer_]
    IN [s2 EXCEPT ![w].buffer_ = NULL]

\* RawMemory::operator=(RawMemory&&): this is vs[v].data_, other is vs[w].data_
RawMoveAssign(vs, v, w) ==
    LET s1 == [vs EXCEPT ![v].capacity_ = vs[w].capacity_]
        s2 == [s1 EXCEPT ![v].buffer_ = s1[w].buffer_]
        s3 == [s2 EXCEPT ![w].buffer_ = NULL]
    IN [s3 EXCEPT ![w].capacity_ = 0]

\* ---- construction and destruction of single objects -----------------------
\* moving T may throw only when T is not nothrow-move-constructible
MoveTick(m) == IF policy = "copy" THEN Tick(m) ELSE m

\* new (b + i) T(x)
ConstructAt(m, b, i, x) ==
    LET t == Tick(m)
    IN IF t.threw THEN t
       ELSE IF ~InBlock(t.h, b, i) THEN Wild(t, b, i)
       ELSE Note([t EXCEPT !.h = SetSlot(t.h, b, i, x), !.ctor = @ + 1], "construct", b, i)

\* new (db + di) T(sb[si])
CopyConstructAt(m, db, di, sb, si) ==
    LET t == Tick(m)
    IN IF t.threw THEN t
       ELSE IF ~InBlock(t.h, sb, si) THEN Wild(t, sb, si)
       ELSE IF ~InBlock(t.h, db, di) THEN Wild(t, db, di)
       ELSE IF At(t.h, sb, si) = Raw THEN [t EXCEPT !.bad = TRUE]
       ELSE Note([t EXCEPT !.h = SetSlot(t.h, db, di, At(t.h, sb, si)),
                           !.ctor = @ + 1, !.xfer = @ + 1], "transfer", sb, si)

\* new (db + di) T(std::move(sb[si]))
MoveConstructAt(m, db, di, sb, si) ==
    LET t == MoveTick(m)
    IN IF t.threw THEN t
       ELSE IF ~InBlock(t.h, sb, si) THEN Wild(t, sb, si)
       ELSE IF ~InBlock(t.h, db, di) THEN Wild(t, db, di)
       ELSE IF At(t.h, sb, si) = Raw THEN [t EXCEPT !.bad = TRUE]
       ELSE Note([t EXCEPT !.h = SetSlot(SetSlot(t.h, db, di, At(t.h, sb, si)), sb, si, Moved),
                           !.ctor = @ + 1, !.xfer = @ + 1], "transfer", sb, si)

\* db[di] = sb[si]
CopyAssignAt(m, db, di, sb, si) ==
    LET t == Tick(m)
    IN IF t.threw THEN t
       ELSE IF ~InBlock(t.h, sb, si) THEN Wild(t, sb, si)
       ELSE IF ~InBlock(t.h, db, di) THEN Wild(t, db, di)
       ELSE IF At(t.h, db, di) = Raw \/ At(t.h, sb, si) = Raw THEN [t EXCEPT !.bad = TRUE]
       ELSE [t EXCEPT !.h = SetSlot(t.h, db, di, At(t.h, sb, si)), !.xfer = @ + 1]

\* db[di] = std::move(sb[si])
MoveAssignAt(m, db, di, sb, si) ==
    LET t == MoveTick(m)
    IN IF t.threw THEN t
       ELSE IF ~InBlock(t.h, sb, si) THEN Wild(t, sb, si)
       ELSE IF ~InBlock(t.h, db, di) THEN Wild(t, db, di)
       ELSE IF At(t.h, db, di) = Raw \/ At(t.h, sb, si) = Raw THEN [t EXCEPT !.bad = TRUE]
       ELSE IF db = sb /\ di = si THEN t
       ELSE [t EXCEPT !.h = SetSlot(SetSlot(t.h, db, di, At(t.h, sb, si)), sb, si, Moved),
                      !.xfer = @ + 1]

\* (b + i)->~T()
DestroyAt(m, b, i) ==
    IF ~InBlock(m.h, b, i) THEN Wild(m, b, i)
    ELSE IF At(m.h, b, i) = Raw THEN [m EXCEPT !.bad = TRUE]
    ELSE Note([m EXCEPT !.h = SetSlot(m.h, b, i, Raw), !.dtor = @ + 1], "destroy", b, i)

\* ---- the <memory> and <algorithm> range operations -----------------------
\* std::destroy_n(b + off, n)
RECURSIVE DestroyN(_, _, _, _)
DestroyN(m, b, off, n) ==
    IF n = 0 THEN m ELSE DestroyN(DestroyAt(m, b, off), b, off + 1, n - 1)

\* std::uninitialized_copy_n that leaves what it constructed when a copy throws
RECURSIVE UCopyFromNoCleanup(_, _, _, _, _, _, _)
UCopyFromNoCleanup(m, sb, so, n, db, do, k) ==
    IF k = n THEN m
    ELSE LET t == CopyConstructAt(m, db, do + k, sb, so + k)
         IN IF t.threw THEN t
            ELSE UCopyFromNoCleanup(t, sb, so, n, db, do, k + 1)

\* std::uninitialized_copy_n(sb + so, n, db + do): a throw destroys what it constructed
RECURSIVE UCopyFrom(_, _, _, _, _, _, _)
UCopyFrom(m, sb, so, n, db, do, k) ==
    IF k = n THEN m
    ELSE LET t == CopyConstructAt(m, db, do + k, sb, so + k)
         IN IF t.threw THEN DestroyN(t, db, do, k)
            ELSE UCopyFrom(t, sb, so, n, db, do, k + 1)

UninitializedCopyN(m, sb, so, n, db, do) == UCopyFrom(m, sb, so, n, db, do, 0)

\* std::uninitialized_move_n(sb + so, n, db + do)
RECURSIVE UMoveFrom(_, _, _, _, _, _, _)
UMoveFrom(m, sb, so, n, db, do, k) ==
    IF k = n THEN m
    ELSE LET t == MoveConstructAt(m, db, do + k, sb, so + k)
         IN IF t.threw THEN DestroyN(t, db, do, k)
            ELSE UMoveFrom(t, sb, so, n, db, do, k + 1)

UninitializedMoveN(m, sb, so, n, db, do) == UMoveFrom(m, sb, so, n, db, do, 0)

\* std::uninitialized_value_construct_n that leaves what it constructed when T() throws
RECURSIVE UValueFromNoCleanup(_, _, _, _, _)
UValueFromNoCleanup(m, b, off, n, k) ==
    IF k = n THEN m
    ELSE LET t == ConstructAt(m, b, off + k, Default)
         IN IF t.threw THEN t
            ELSE UValueFromNoCleanup(t, b, off, n, k + 1)

\* std::uninitialized_value_construct_n(b + off, n): a throw destroys what it constructed
RECURSIVE UValueFrom(_, _, _, _, _)
UValueFrom(m, b, off, n, k) ==
    IF k = n THEN m
    ELSE LET t == ConstructAt(m, b, off + k, Default)
         IN IF t.threw THEN DestroyN(t, b, off, k)
            ELSE UValueFrom(t, b, off, n, k + 1)

UninitializedValueConstructN(m, b, off, n) == UValueFrom(m, b, off, n, 0)

\* std::copy(sb + so, sb + so + n, db + do): copy assignment, front to back
RECURSIVE StdCopy(_, _, _, _, _, _)
StdCopy(m, sb, so, n, db, do) ==
    IF n = 0 THEN m
    ELSE LET t == CopyAssignAt(m, db, do, sb, so)
         IN IF t.threw THEN t ELSE StdCopy(t, sb, so + 1, n - 1, db, do + 1)

\* std::move(b + first, b + lst, b + dst): move assignment, front to back
RECURSIVE StdMove(_, _, _, _, _)
StdMove(m, b, first, lst, dst) ==
    IF first >= lst THEN m
    ELSE LET t == MoveAssignAt(m, b, dst, b, first)
         IN IF t.threw THEN t ELSE StdMove(t, b, first + 1, lst, dst + 1)

\* std::move_backward(b + first, b + lst, b + dlast): move assignment, back to front
RECURSIVE StdMoveBackward(_, _, _, _, _)

\* the overlapping shift done front to back, as std::move(first, lst, dlast - (lst - first))
RECURSIVE ShiftFrontToBack(_, _, _, _, _)
ShiftFrontToBack(m, b, first, lst, dlast) ==
    IF first >= lst THEN m
    ELSE LET d == dlast - (lst - first)
             t == MoveAssignAt(m, b, d, b, first)
         IN IF t.threw THEN t ELSE ShiftFrontToBack(t, b, first + 1, lst, dlast)

StdMoveBackward(m, b, first, lst, dlast) ==
    IF first >= lst THEN m
    ELSE LET t == MoveAssignAt(m, b, dlast - 1, b, lst - 1)
         IN IF t.threw THEN t ELSE StdMoveBackward(t, b, first, lst - 1, dlast - 1)

\* ---- Vector<T> ------------------------------------------------------------
\* CopyOrMove without the if constexpr: always std::uninitialized_move_n
CopyOrMoveAlwaysMoves(m, v, nb) ==
    UninitializedMoveN(m, m.vec[v].buffer_, 0, m.vec[v].size_, nb, 0)

\* Vector::CopyOrMove(new_data): the transfer policy, a compile-time choice
CopyOrMove(m, v, nb) ==
    IF policy = "move"
    THEN UninitializedMoveN(m, m.vec[v].buffer_, 0, m.vec[v].size_, nb, 0)
    ELSE UninitializedCopyN(m, m.vec[v].buffer_, 0, m.vec[v].size_, nb, 0)

\* the tail with data_.Swap(new_data) done before std::destroy_n on the old elements
AdoptBlockSwapFirst(m, v, nb, ncap) ==
    LET old == m.vec[v].buffer_
        s   == Note([m EXCEPT !.vec[v].buffer_ = nb, !.vec[v].capacity_ = ncap], "swap", nb, 0)
    IN Deallocate(DestroyN(s, old, 0, m.vec[v].size_), old)

\* the tail of Reserve / EmplaceBack / Emplace: destroy_n(data_, size_); data_.Swap(new_data);
\* then new_data, now holding the old block, goes out of scope
AdoptBlock(m, v, nb, ncap) ==
    LET d   == DestroyN(m, m.vec[v].buffer_, 0, m.vec[v].size_)
        old == d.vec[v].buffer_
        s   == Note([d EXCEPT !.vec[v].buffer_ = nb, !.vec[v].capacity_ = ncap], "swap", nb, 0)
    IN Deallocate(s, old)

\* the early return of Reserve written with < for <=
ReserveIsNoopStrict(new_capacity, capacity) == new_capacity < capacity

\* whether Reserve(new_capacity) returns at once (line 140)
ReserveIsNoop(new_capacity, capacity) == new_capacity <= capacity

\* Vector::Reserve(new_capacity)
ReserveOp(m, v, new_capacity) ==
    IF ReserveIsNoop(new_capacity, m.vec[v].capacity_) THEN m
    ELSE LET a == Allocate(m, new_capacity)
         IN IF a.threw THEN a
            ELSE LET c == CopyOrMove(a, v, a.ret)
                 IN IF c.threw THEN Deallocate(c, a.ret)
                    ELSE AdoptBlock(c, v, a.ret, new_capacity)

\* Vector::Swap(other): data_.Swap(other.data_); size_ = std::exchange(other.size_, size_)
SwapOp(m, v, w) ==
    LET d  == RawSwap(m.vec, v, w)
        s1 == [d EXCEPT ![w].size_ = d[v].size_]
    IN [m EXCEPT !.vec = [s1 EXCEPT ![v].size_ = d[w].size_]]

\* Vector::operator=(Vector&&): data_ = std::move(rhs.data_); size_ = std::exchange(rhs.size_, 0)
MoveAssignOp(m, v, w) ==
    LET d  == RawMoveAssign(m.vec, v, w)
        s1 == [d EXCEPT ![w].size_ = 0]
    IN [m EXCEPT !.vec = [s1 EXCEPT ![v].size_ = d[w].size_]]

\* a move constructor that copies the members and leaves other as it is
MoveCtorShares(m, v, w) == [m EXCEPT !.vec[v] = m.vec[w]]

\* Vector::Vector(Vector&&): default member initialisers, then Swap(other)
MoveCtorOp(m, v, w) == SwapOp([m EXCEPT !.vec[v] = EmptyVec], v, w)

\* Vector::Vector(size_t size); a throw unwinds data_ and the object never exists
SizedCtorOp(m, v, size) ==
    LET a == Allocate(m, size)
    IN IF a.threw THEN a
       ELSE LET c == UninitializedValueConstructN(a, a.ret, 0, size)
            IN IF c.threw THEN Deallocate(c, a.ret)
               ELSE [c EXCEPT !.vec[v] = [alive |-> TRUE, buffer_ |-> a.ret,
                                          capacity_ |-> size, size_ |-> size]]

\* a copy constructor that copies the members: both arrays then name one block
CopyCtorShares(m, v, w) ==
    [m EXCEPT !.vec[v] = [alive |-> TRUE, buffer_ |-> m.vec[w].buffer_,
                          capacity_ |-> m.vec[w].size_, size_ |-> m.vec[w].size_]]

\* Vector::Vector(const Vector& other)
CopyCtorOp(m, v, w) ==
    LET n == m.vec[w].size_
        a == Allocate(m, n)
    IN IF a.threw THEN a
       ELSE LET c == UninitializedCopyN(a, a.vec[w].buffer_, 0, n, a.ret, 0)
            IN IF c.threw THEN Deallocate(c, a.ret)
               ELSE [c EXCEPT !.vec[v] = [alive |-> TRUE, buffer_ |-> a.ret,
                                          capacity_ |-> n, size_ |-> n]]

\* v[index] = x through the reference Vector::operator[] returns
WriteOp(m, v, index, x) ==
    IF ~InBlock(m.h, m.vec[v].buffer_, index) THEN Wild(m, m.vec[v].buffer_, index)
    ELSE IF At(m.h, m.vec[v].buffer_, index) = Raw THEN [m EXCEPT !.bad = TRUE]
    ELSE [m EXCEPT !.h = SetSlot(m.h, m.vec[v].buffer_, index, x)]

\* Vector::~Vector(), then ~RawMemory() of data_
DtorOp(m, v) ==
    LET d == DestroyN(m, m.vec[v].buffer_, 0, m.vec[v].size_)
    IN [Deallocate(d, d.vec[v].buffer_) EXCEPT !.vec[v] = DeadVec]

\* operator=(const Vector&) that takes the copy-and-swap branch whatever the capacity
CopyAssignBySwap(m, v, w) ==
    IF v = w THEN m
    ELSE LET c == CopyCtorOp(m, Tmp, w)
         IN IF c.threw THEN c ELSE DtorOp(SwapOp(c, v, Tmp), Tmp)

\* Vector::operator=(const Vector& rhs); rhs_copy is the vector Tmp
CopyAssignOp(m, v, w) ==
    LET t == m.vec[v]
        r == m.vec[w]
    IN IF v = w THEN m
       ELSE IF r.size_ > t.capacity_
       THEN LET c == CopyCtorOp(m, Tmp, w)
            IN IF c.threw THEN c ELSE DtorOp(SwapOp(c, v, Tmp), Tmp)
       ELSE IF r.size_ < t.size_
       THEN LET c == StdCopy(m, r.buffer_, 0, r.size_, t.buffer_, 0)
            IN IF c.threw THEN c
               ELSE [DestroyN(c, t.buffer_, r.size_, t.size_ - r.size_)
                        EXCEPT !.vec[v].size_ = r.size_]
       ELSE LET c == StdCopy(m, r.buffer_, 0, t.size_, t.buffer_, 0)
            IN IF c.threw THEN c
               ELSE LET u == UninitializedCopyN(c, r.buffer_, t.size_, r.size_ - t.size_,
                                                t.buffer_, t.size_)
                    IN IF u.threw THEN u ELSE [u EXCEPT !.vec[v].size_ = r.size_]

\* the else branch of Resize (lines 207-208), up to the assignment of size_
ResizeGrow(m, v, new_size) ==
    LET r == ReserveOp(m, v, new_size)
    IN IF r.threw THEN r
       ELSE UninitializedValueConstructN(r, r.vec[v].buffer_, m.vec[v].size_,
                                         new_size - m.vec[v].size_)

\* Resize that shrinks by lowering size_ alone, without std::destroy_n
ResizeWithoutDestroy(m, v, new_size) ==
    LET c == IF new_size < m.vec[v].size_ THEN m ELSE ResizeGrow(m, v, new_size)
    IN IF c.threw THEN c ELSE [c EXCEPT !.vec[v].size_ = new_size]

\* Vector::Resize(new_size)
ResizeOp(m, v, new_size) ==
    LET t == m.vec[v]
        c == IF new_size < t.size_
             THEN DestroyN(m, t.buffer_, new_size, t.size_ - new_size)
             ELSE ResizeGrow(m, v, new_size)
    IN IF c.threw THEN c ELSE [c EXCEPT !.vec[v].size_ = new_size]

\* PopBack that gives the block back when the last element goes
PopBackTrims(m, v) ==
    LET d == [DestroyAt(m, m.vec[v].buffer_, m.vec[v].size_ - 1) EXCEPT !.vec[v].size_ = @ - 1]
    IN IF d.vec[v].size_ > 0 THEN d
       ELSE [Deallocate(d, d.vec[v].buffer_) EXCEPT !.vec[v].buffer_ = NULL,
                                                    !.vec[v].capacity_ = 0]

\* Vector::PopBack()
PopBackOp(m, v) ==
    [DestroyAt(m, m.vec[v].buffer_, m.vec[v].size_ - 1) EXCEPT !.vec[v].size_ = @ - 1]

\* growth by one slot instead of doubling
GrowByOne(size, capacity) == capacity + 1

\* the capacity of the block a full array grows into (lines 226 and 251)
GrowCapacity(size, capacity) == IF size = 0 THEN 1 ELSE capacity * 2

\* the value T(values...) constructs: arg is a value, or RefBase + i for a reference
\* to element i of the block the array owned when the call was made
ArgValue(h, b, arg) == IF arg >= RefBase THEN At(h, b, arg - RefBase) ELSE arg

\* Vector::EmplaceBack(values...); PushBack forwards to it
EmplaceBackOp(m, v, arg) ==
    LET t == m.vec[v]
    IN IF t.size_ = t.capacity_
       THEN LET ncap == GrowCapacity(t.size_, t.capacity_)
                a    == Allocate(m, ncap)
            IN IF a.threw THEN a
               ELSE LET n == ConstructAt(a, a.ret, t.size_, ArgValue(a.h, t.buffer_, arg))
                    IN IF n.threw THEN Deallocate(n, a.ret)
                       ELSE LET c == CopyOrMove(n, v, a.ret)
                            IN IF c.threw THEN Deallocate(c, a.ret)
                               ELSE [AdoptBlock(c, v, a.ret, ncap)
                                        EXCEPT !.vec[v].size_ = @ + 1, !.ret = t.size_]
       ELSE LET n == ConstructAt(m, t.buffer_, t.size_, ArgValue(m.h, t.buffer_, arg))
            IN IF n.threw THEN n
               ELSE [n EXCEPT !.vec[v].size_ = @ + 1, !.ret = t.size_]

\* *pos = T(values...): a temporary is constructed, move-assigned into the slot, destroyed
AssignTemporary(m, b, i, arg) ==
    LET c == Tick(m)
    IN IF c.threw THEN c
       ELSE LET x == ArgValue(c.h, b, arg)
                a == MoveTick([c EXCEPT !.ctor = @ + 1])
            IN IF a.threw THEN [a EXCEPT !.dtor = @ + 1]
               ELSE IF ~InBlock(a.h, b, i) THEN Wild(a, b, i)
               ELSE IF At(a.h, b, i) = Raw THEN [a EXCEPT !.bad = TRUE]
               ELSE [a EXCEPT !.h = SetSlot(a.h, b, i, x), !.dtor = @ + 1]

\* the two transfers of the growing Emplace (lines 253-259)
TransferAround(m, b, size, pos_index, nb) ==
    IF policy = "move"
    THEN LET f == UninitializedMoveN(m, b, 0, pos_index, nb, 0)
         IN IF f.threw THEN f
            ELSE UninitializedMoveN(f, b, pos_index, size - pos_index, nb, pos_index + 1)
    ELSE LET f == UninitializedCopyN(m, b, 0, pos_index, nb, 0)
         IN IF f.threw THEN f
            ELSE UninitializedCopyN(f, b, pos_index, size - pos_index, nb, pos_index + 1)

\* Vector::Emplace(pos, values...); Insert forwards to it
EmplaceOp(m, v, pos_index, arg) ==
    LET t == m.vec[v]
    IN IF pos_index = t.size_
       THEN LET e == EmplaceBackOp(m, v, arg)
            IN IF e.threw THEN e ELSE [e EXCEPT !.ret = e.vec[v].size_ - 1]
       ELSE IF t.size_ < t.capacity_
       THEN LET c == MoveConstructAt(m, t.buffer_, t.size_, t.buffer_, t.size_ - 1)
            IN IF c.threw THEN c
               ELSE LET s == StdMoveBackward(c, t.buffer_, pos_index, t.size_ - 1, t.size_)
                    IN IF s.threw THEN s
                       ELSE LET a == AssignTemporary(s, t.buffer_, pos_index, arg)
                            IN IF a.threw THEN a
                               ELSE [a EXCEPT !.vec[v].size_ = @ + 1, !.ret = pos_index]
       ELSE LET ncap == GrowCapacity(t.size_, t.capacity_)
                a    == Allocate(m, ncap)
            IN IF a.threw THEN a
               ELSE LET n == ConstructAt(a, a.ret, pos_index, ArgValue(a.h, t.buffer_, arg))
                    IN IF n.threw THEN Deallocate(n, a.ret)
                       ELSE LET c == TransferAround(n, t.buffer_, t.size_, pos_index, a.ret)
                            IN IF c.threw THEN Deallocate(c, a.ret)
                               ELSE [AdoptBlock(c, v, a.ret, ncap)
                                        EXCEPT !.vec[v].size_ = @ + 1, !.ret = pos_index]

\* Erase that shifts and lowers size_ but never runs end()->~T()
EraseWithoutDestroy(m, v, pos_index) ==
    LET t == m.vec[v]
        s == StdMove(m, t.buffer_, pos_index + 1, t.size_, pos_index)
    IN IF s.threw THEN s
       ELSE [s EXCEPT !.vec[v].size_ = @ - 1, !.ret = pos_index]

\* Vector::Erase(pos)
EraseOp(m, v, pos_index) ==
    LET t == m.vec[v]
        s == StdMove(m, t.buffer_, pos_index + 1, t.size_, pos_index)
    IN IF s.threw THEN s
       ELSE [DestroyAt(s, t.buffer_, t.size_ - 1)
                EXCEPT !.vec[v].size_ = @ - 1, !.ret = pos_index]

\* ---- the state machine -----------------------------------------------------
Fails == 0..MaxFail

NoOp == [op |-> "none", v |-> 0, w |-> 0, a |-> 0, x |-> 0, inj |-> 0, threw |-> FALSE,
         ctor |-> 0, dtor |-> 0, xfer |-> 0, nalloc |-> 0, nfree |-> 0,
         abandoned |-> 0, ret |-> 0, log |-> <<>>, stale |-> FALSE]

\* the client may call an operation
Ready == ~ub /\ (once => last.op = "none")

\* the operation is well defined on v: its elements can be addressed
Usable(v) == vec[v].alive /\ vec[v].size_ <= vec[v].capacity_

\* the state after an operation that ended on machine r; an injected failure that
\* lies beyond the operation's last fallible step is no failure at all
Commit(r, op, v, w, a, x) ==
    /\ r.budget = 0
    /\ heap' = r.h
    /\ vec' = r.vec
    /\ ub' = r.bad
    /\ last' = [op |-> op, v |-> v, w |-> w, a |-> a, x |-> x, inj |-> r.inj,
                threw |-> r.threw,
                ctor |-> r.ctor, dtor |-> r.dtor, xfer |-> r.xfer, nalloc |-> r.nalloc,
                nfree |-> r.nfree, abandoned |-> r.abandoned, ret |-> r.ret, log |-> r.log,
                stale |-> r.stale]
    /\ pre' = [heap |-> heap, vec |-> vec]
    /\ UNCHANGED <<policy, once>>

Forget(S) == appends' = [u \in Vecs |-> IF u \in S THEN -1 ELSE appends[u]]

DefaultCtor(v) ==
    /\ Ready /\ ~vec[v].alive
    /\ Commit([Start(0) EXCEPT !.vec[v] = EmptyVec], "Vector", v, 0, 0, 0)
    /\ appends' = [appends EXCEPT ![v] = 0]

SizedCtor(v, n, fail) ==
    /\ Ready /\ ~vec[v].alive
    /\ Commit(SizedCtorOp(Start(fail), v, n), "VectorN", v, 0, n, 0)
    /\ Forget({v})

CopyCtor(v, w, fail) ==
    /\ Ready /\ v # w /\ ~vec[v].alive /\ Usable(w)
    /\ Commit(CopyCtorOp(Start(fail), v, w), "VectorCopy", v, w, 0, 0)
    /\ Forget({v})

MoveCtor(v, w) ==
    /\ Ready /\ v # w /\ ~vec[v].alive /\ vec[w].alive
    /\ Commit(MoveCtorOp(Start(0), v, w), "VectorMove", v, w, 0, 0)
    /\ Forget({v, w})

Dtor(v) ==
    /\ Ready /\ Usable(v)
    /\ Commit(DtorOp(Start(0), v), "~Vector", v, 0, 0, 0)
    /\ Forget({v})

Reserve(v, n, fail) ==
    /\ Ready /\ Usable(v)
    /\ Commit(ReserveOp(Start(fail), v, n), "Reserve", v, 0, n, 0)
    /\ Forget({v})

Resize(v, n, fail) ==
    /\ Ready /\ Usable(v)
    /\ Commit(ResizeOp(Start(fail), v, n), "Resize", v, 0, n, 0)
    /\ Forget({v})

PushBack(v, x, fail) ==
    /\ Ready /\ Usable(v)
    /\ LET r == EmplaceBackOp(Start(fail), v, x)
       IN /\ Commit(r, "PushBack", v, 0, 0, x)
          /\ appends' = [appends EXCEPT ![v] = IF r.threw \/ @ < 0 THEN -1 ELSE @ + 1]

PopBack(v) ==
    /\ Ready /\ Usable(v) /\ vec[v].size_ > 0
    /\ Commit(PopBackOp(Start(0), v), "PopBack", v, 0, 0, 0)
    /\ Forget({v})

Insert(v, p, arg, fail) ==
    /\ Ready /\ Usable(v) /\ p <= vec[v].size_
    /\ arg >= RefBase => arg - RefBase < vec[v].size_
    /\ Commit(EmplaceOp(Start(fail), v, p, arg), "Insert", v, 0, p, arg)
    /\ Forget({v})

Erase(v, p, fail) ==
    /\ Ready /\ Usable(v) /\ p < vec[v].size_
    /\ Commit(EraseOp(Start(fail), v, p), "Erase", v, 0, p, 0)
    /\ Forget({v})

CopyAssign(v, w, fail) ==
    /\ Ready /\ Usable(v) /\ Usable(w)
    /\ Commit(CopyAssignOp(Start(fail), v, w), "CopyAssign", v, w, 0, 0)
    /\ Forget({v})

MoveAssign(v, w) ==
    /\ Ready /\ vec[v].alive /\ vec[w].alive
    /\ Commit(MoveAssignOp(Start(0), v, w), "MoveAssign", v, w, 0, 0)
    /\ Forget({v, w})

Swap(v, w) ==
    /\ Ready /\ vec[v].alive /\ vec[w].alive
    /\ Commit(SwapOp(Start(0), v, w), "Swap", v, w, 0, 0)
    /\ Forget({v, w})

Write(v, i, x) ==
    /\ Ready /\ Usable(v) /\ i < vec[v].size_
    /\ Commit(WriteOp(Start(0), v, i, x), "Write", v, 0, i, x)
    /\ Forget({v})

Args(n) == Values \cup {RefBase + i : i \in 0..(n - 1)}

\* ---- the states a client's arrays can be in ---------------------------------
\* an array of capacity cap <= n whose elements are values callers passed or T();
\* cap = -1 stands for an array that has not been constructed
ElemVals == Values \cup {Default}

Shapes(n) ==
    {[cap |-> -1, elems |-> <<>>]} \cup
    UNION {{[cap |-> c, elems |-> e] : e \in UNION {[1..k -> ElemVals] : k \in 0..c}} : c \in 0..n}

\* array v with shape f[v] owns block v
Arrays(VS, f) ==
    /\ vec = [v \in AllVecs |->
                IF v \in VS /\ f[v].cap >= 0
                THEN [alive |-> TRUE, buffer_ |-> IF f[v].cap = 0 THEN NULL ELSE v,
                      capacity_ |-> f[v].cap, size_ |-> Len(f[v].elems)]
                ELSE DeadVec]
    /\ heap = [b \in Blocks |->
                IF b \in VS /\ f[b].cap > 0
                THEN [live |-> TRUE,
                      slots |-> [i \in 1..f[b].cap |->
                                   IF i <= Len(f[b].elems) THEN f[b].elems[i] ELSE Raw]]
                ELSE [live |-> FALSE, slots |-> <<>>]]

InitWith(VS, n, one) ==
    /\ \E f \in [VS -> Shapes(n)] : Arrays(VS, f)
    /\ policy \in {"move", "copy"}
    /\ once = one
    /\ ub = FALSE
    /\ last = NoOp
    /\ pre = [heap |-> heap, vec |-> vec]
    /\ appends = [v \in Vecs |-> -1]

\* ---- a client that holds one array, in any state, and calls one operation ----
Init == InitWith({1}, MaxN, TRUE)

Next ==
    \/ DefaultCtor(1)
    \/ \E n \in 0..MaxN, f \in Fails : SizedCtor(1, n, f)
    \/ Dtor(1)
    \/ \E n \in 0..MaxN, f \in Fails : Reserve(1, n, f)
    \/ \E n \in 0..MaxN, f \in Fails : Resize(1, n, f)
    \/ \E x \in Values, f \in Fails : PushBack(1, x, f)
    \/ PopBack(1)
    \/ \E p \in 0..MaxN, a \in Args(MaxN), f \in Fails : Insert(1, p, a, f)
    \/ \E p \in 0..MaxN, f \in Fails : Erase(1, p, f)
    \/ \E f \in Fails : CopyAssign(1, 1, f)
    \/ MoveAssign(1, 1)
    \/ Swap(1, 1)

Spec == Init /\ [][Next]_vars

\* ---- a client that holds two arrays, in any state, and calls one operation; of
\* the failures only those of constructing an array and of copying one into another ----
InitPair == InitWith(Vecs, PairN, TRUE)

NextPair ==
    \/ \E v \in Vecs : DefaultCtor(v)
    \/ \E v \in Vecs, n \in 0..PairN, f \in Fails : SizedCtor(v, n, f)
    \/ \E v \in Vecs, w \in Vecs, f \in Fails : CopyCtor(v, w, f)
    \/ \E v \in Vecs, w \in Vecs : MoveCtor(v, w)
    \/ \E v \in Vecs : Dtor(v)
    \/ \E v \in Vecs, n \in 0..PairN : Reserve(v, n, 0)
    \/ \E v \in Vecs, n \in 0..PairN : Resize(v, n, 0)
    \/ \E v \in Vecs, x \in Values : PushBack(v, x, 0)
    \/ \E v \in Vecs : PopBack(v)
    \/ \E v \in Vecs, p \in 0..PairN, x \in Values : Insert(v, p, x, 0)
    \/ \E v \in Vecs, p \in 0..PairN : Erase(v, p, 0)
    \/ \E v \in Vecs, w \in Vecs, f \in Fails : CopyAssign(v, w, f)
    \/ \E v \in Vecs, w \in Vecs : MoveAssign(v, w)
    \/ \E v \in Vecs, w \in Vecs : Swap(v, w)

SpecPair == InitPair /\ [][NextPair]_vars

\* ---- a client that constructs an array, appends, pops and destroys, on and on --
InitRun == InitWith({}, 0, FALSE)

NextRun ==
    \/ DefaultCtor(1)
    \/ \E x \in Values : PushBack(1, x, 0)
    \/ PopBack(1)
    \/ Dtor(1)

SpecRun == InitRun /\ [][NextRun]_vars

\* ---- a client that constructs, moves, swaps, grows and destroys two arrays, on and
\* on; the elements all have the same value -------------------------------------------
InitOwn == InitWith({}, 0, FALSE)

NextOwn ==
    \/ \E v \in Vecs : DefaultCtor(v)
    \/ \E v \in Vecs, w \in Vecs : MoveCtor(v, w)
    \/ \E v \in Vecs, w \in Vecs : MoveAssign(v, w)
    \/ \E v \in Vecs, w \in Vecs : Swap(v, w)
    \/ \E v \in Vecs, n \in 1..PairN : Reserve(v, n, 0)
    \/ \E v \in Vecs : PushBack(v, 1, 0)
    \/ \E v \in Vecs : Dtor(v)

SpecOwn == InitOwn /\ [][NextOwn]_vars

\* ---- a client that holds an array A (array 1), copy-constructs B (array 2) from it
\* and then goes on mutating, assigning to and destroying B --------------------------
InitCopy == InitWith({1}, PairN, FALSE)

NextCopy ==
    \/ CopyCtor(2, 1, 0)
    \/ \E x \in Values : PushBack(2, x, 0)
    \/ PopBack(2)
    \/ \E p \in 0..MaxN, x \in Values : Insert(2, p, x, 0)
    \/ \E p \in 0..MaxN : Erase(2, p, 0)
    \/ \E n \in 0..MaxN : Resize(2, n, 0)
    \/ \E n \in 0..MaxN : Reserve(2, n, 0)
    \/ \E i \in 0..MaxN, x \in Values : Write(2, i, x)
    \/ \E w \in Vecs : CopyAssign(2, w, 0)
    \/ Swap(2, 2)
    \/ Dtor(2)

SpecCopy == InitCopy /\ [][NextCopy]_vars

\* the elements of array v in heap h: the values of slots [0, size_)
Elems(h, vs, v) == [i \in 1..vs[v].size_ |-> At(h, vs[v].buffer_, i - 1)]

PreElems(v) == Elems(pre.heap, pre.vec, v)

PostElems(v) == Elems(heap, vec, v)

\* the last operation was op and returned normally
Did(op) == last.op = op /\ ~last.threw

Max(a, b) == IF a >= b THEN a ELSE b

RECURSIVE PowerOfTwoFrom(_, _)
PowerOfTwoFrom(c, k) == IF c >= k THEN c ELSE PowerOfTwoFrom(2 * c, k)

\* the smallest power of two >= k
SmallestPowerOfTwo(k) == PowerOfTwoFrom(1, k)

\* no operation of the model ran into a step the language leaves undefined
TypeOK ==
    /\ \A b \in Blocks : heap[b].live \/ heap[b].slots = <<>>
    /\ ~vec[Tmp].alive
    /\ ~ub

\* ---- the claims ---------------------------------------------------------------

\* C1: every array satisfies 0 <= Size() <= Capacity() after any public operation.
\* The code breaks it: a = std::move(a) on an array holding elements leaves
\* capacity_ = 0 and size_ as it was.
C1_SizeWithinCapacity ==
    \A v \in Vecs : vec[v].alive => 0 <= vec[v].size_ /\ vec[v].size_ <= vec[v].capacity_

\* C2: between operations, also after one that threw, the constructed objects are
\* exactly the slots [0, size) of the blocks the arrays own: none in [size, capacity),
\* none in a block no array owns, none left behind in a released block.
C2_LiveObjectsAreTheElements ==
    /\ last.abandoned = 0
    /\ \A b \in Blocks : \A i \in 1..Len(heap[b].slots) :
          heap[b].slots[i] # Raw <=>
             \E v \in Vecs : vec[v].alive /\ vec[v].buffer_ = b /\ i <= vec[v].size_

\* C3: a successful Insert/Emplace(p, v) of a value v into an array of size s makes the
\* size s + 1, the element at p equal to v, leaves [0, p) unchanged, places the former
\* [p, s) at [p + 1, s + 1) in order, and returns position p.
C3_InsertPlacesValue ==
    (Did("Insert") /\ last.x < RefBase) =>
        LET old == PreElems(last.v)
            new == PostElems(last.v)
            p   == last.a
        IN /\ Len(new) = Len(old) + 1
           /\ new[p + 1] = last.x
           /\ \A i \in 1..p : new[i] = old[i]
           /\ \A i \in (p + 1)..Len(old) : new[i + 1] = old[i]
           /\ last.ret = p

\* an in-place Insert at the front of an array of three elements
C3_Witness ==
    /\ Did("Insert") /\ last.x < RefBase
    /\ last.a = 0 /\ last.nalloc = 0
    /\ vec[last.v].size_ = 4
    /\ pre.vec[last.v].capacity_ = 4

\* C4: Erase(p) on an array of size s >= 1 makes the size s - 1, leaves [0, p)
\* unchanged, places the former [p + 1, s) at [p, s - 1) in order, destroys exactly one
\* object, the vacated last slot, and returns position p.
C4_EraseShiftsLeft ==
    Did("Erase") =>
        LET old == PreElems(last.v)
            new == PostElems(last.v)
            p   == last.a
        IN /\ Len(new) = Len(old) - 1
           /\ \A i \in 1..p : new[i] = old[i]
           /\ \A i \in (p + 2)..Len(old) : new[i - 1] = old[i]
           /\ last.dtor = 1
           /\ At(heap, vec[last.v].buffer_, Len(old) - 1) = Raw
           /\ last.ret = p

\* Erase of the first of at least three elements
C4_Witness ==
    Did("Erase") /\ last.a = 0 /\ vec[last.v].size_ >= 2

\* C5: an append to a full array sets the capacity to max(1, 2 * old capacity), any
\* other append leaves it unchanged; after k appends in a row to a default-constructed
\* array the capacity is the smallest power of two >= k.
C5_AppendGrowth ==
    /\ Did("PushBack") =>
          vec[last.v].capacity_ =
             IF pre.vec[last.v].size_ = pre.vec[last.v].capacity_
             THEN Max(1, 2 * pre.vec[last.v].capacity_)
             ELSE pre.vec[last.v].capacity_
    /\ \A v \in Vecs : appends[v] >= 1 =>
          /\ vec[v].size_ = appends[v]
          /\ vec[v].capacity_ = SmallestPowerOfTwo(appends[v])

\* three appends in a row: the capacity is 4, not 3
C5_Witness ==
    appends[1] = 3 /\ vec[1].capacity_ = 4 /\ Did("PushBack")

\* C6: a successful Reserve(c) leaves the size and the elements unchanged; for
\* c <= capacity it allocates nothing and keeps the block and the capacity, otherwise
\* the capacity becomes exactly c.
C6_ReserveKeepsElements ==
    Did("Reserve") =>
        LET v == last.v
            c == last.a
        IN /\ vec[v].size_ = pre.vec[v].size_
           /\ PostElems(v) = PreElems(v)
           /\ c <= pre.vec[v].capacity_ =>
                 /\ vec[v] = pre.vec[v]
                 /\ last.nalloc = 0
           /\ c > pre.vec[v].capacity_ => vec[v].capacity_ = c
           /\ vec[v].capacity_ >= c
           /\ vec[v].capacity_ >= pre.vec[v].capacity_

\* a Reserve that moved two or more elements into a larger block
C6_Witness ==
    /\ Did("Reserve") /\ last.nalloc = 1
    /\ vec[last.v].size_ >= 2
    /\ vec[last.v].capacity_ > pre.vec[last.v].capacity_

\* C7: a successful Resize(m) on an array of size s gives size m; for m < s the
\* elements [0, m) are unchanged and the s - m elements [m, s) are destroyed once each;
\* for m >= s the elements [0, s) are unchanged and [s, m) are T().
C7_ResizeResult ==
    Did("Resize") =>
        LET v   == last.v
            n   == last.a
            old == PreElems(v)
            new == PostElems(v)
        IN /\ Len(new) = n
           /\ n < Len(old) =>
                 /\ \A i \in 1..n : new[i] = old[i]
                 /\ last.dtor = Len(old) - n
                 /\ \A i \in n..(Len(old) - 1) : At(heap, vec[v].buffer_, i) = Raw
                 /\ vec[v].buffer_ = pre.vec[v].buffer_
           /\ n >= Len(old) =>
                 /\ \A i \in 1..Len(old) : new[i] = old[i]
                 /\ \A i \in (Len(old) + 1)..n : new[i] = Default

\* a Resize that destroyed two or more elements and kept at least one
C7_Witness ==
    /\ Did("Resize") /\ last.a >= 1
    /\ pre.vec[last.v].size_ >= last.a + 2

\* C8: taking ownership from array A into a distinct array B, by move construction or
\* move assignment, leaves A with size 0 and capacity 0 and B with A's block, elements,
\* order and capacity; no element is constructed, copied or moved.
C8_MoveTakesOwnership ==
    ((Did("VectorMove") \/ Did("MoveAssign")) /\ last.v # last.w) =>
        LET b == last.v
            a == last.w
        IN /\ vec[a].size_ = 0
           /\ vec[a].capacity_ = 0
           /\ vec[b].size_ = pre.vec[a].size_
           /\ vec[b].capacity_ = pre.vec[a].capacity_
           /\ vec[b].buffer_ = pre.vec[a].buffer_
           /\ PostElems(b) = PreElems(a)
           /\ last.ctor = 0 /\ last.xfer = 0

\* a move assignment from an array of two elements
C8_Witness ==
    /\ Did("MoveAssign") /\ last.v # last.w
    /\ vec[last.v].size_ = 2
    /\ PostElems(last.v)[1] # PostElems(last.v)[2]

\* C9: move-assigning A into B destroys each element that was live in B once and
\* releases the block B owned once.  The code does neither.
C9_MoveAssignDiscardsTarget ==
    (Did("MoveAssign") /\ last.v # last.w) =>
        /\ last.dtor = pre.vec[last.v].size_
        /\ pre.vec[last.v].buffer_ # NULL => ~heap[pre.vec[last.v].buffer_].live

\* the last operation had to obtain a larger block
Growing ==
    \/ last.op = "Reserve" /\ last.a > pre.vec[last.v].capacity_
    \/ last.op \in {"PushBack", "Insert"}
          /\ pre.vec[last.v].size_ = pre.vec[last.v].capacity_

\* C10: under the duplication policy a failure inside a growing Reserve, PushBack or
\* Insert leaves the array's size, capacity and elements as they were.

C10_StrongGuaranteeOnGrowth ==
    (policy = "copy" /\ last.threw /\ Growing) =>
        /\ vec[last.v] = pre.vec[last.v]
        /\ PostElems(last.v) = PreElems(last.v)

\* a growing PushBack on two elements that threw while copying the second
C10_Witness ==
    /\ policy = "copy" /\ last.threw /\ last.op = "PushBack"
    /\ pre.vec[last.v].size_ = 2 /\ pre.vec[last.v].capacity_ = 2
    /\ last.ctor = 2

\* C11: when the construction of element k fails inside Vector(n) or Vector(other), the
\* k elements constructed so far are destroyed, the new block is released and the
\* failure propagates: no object and no block of the failed constructor remains.
C11_CtorFailureUnwinds ==
    \A k \in 0..MaxN :
        (last.op \in {"VectorN", "VectorCopy"} /\ last.inj = k + 2) =>
            /\ last.threw
            /\ last.ctor = k /\ last.dtor = k
            /\ last.nalloc = 1 /\ last.nfree = 1
            /\ last.abandoned = 0
            /\ heap = pre.heap
            /\ ~vec[last.v].alive

\* a copy constructor that failed on the second element after copying the first
C11_Witness ==
    /\ last.op = "VectorCopy" /\ last.inj = 3 /\ last.threw
    /\ last.dtor = 1
    /\ vec[last.w].size_ = 2

\* C12: copy-constructing B from A gives B size = capacity = A's size and A's elements,
\* in a block of its own; from then on no operation on B (append, insert, erase,
\* resize, reserve, assignment into B, element write, destruction) changes A's size,
\* capacity or elements.
C12_CopyIsIndependent ==
    /\ Did("VectorCopy") =>
          LET b == last.v
              a == last.w
          IN /\ vec[b].size_ = vec[a].size_
             /\ vec[b].capacity_ = vec[a].size_
             /\ PostElems(b) = PostElems(a)
             /\ vec[b].buffer_ # NULL => vec[b].buffer_ # vec[a].buffer_
             /\ last.nalloc = (IF vec[a].size_ > 0 THEN 1 ELSE 0)
    /\ (last.op # "none" /\ last.v = 2) =>
          /\ vec[1] = pre.vec[1]
          /\ PostElems(1) = PreElems(1)
          /\ vec[1].buffer_ # NULL =>
                /\ heap[vec[1].buffer_].live
                /\ vec[2].buffer_ # vec[1].buffer_

\* B, a copy of a two-element A, has been shortened and overwritten; A is as it was
C12_Witness ==
    /\ Did("Write") /\ last.v = 2
    /\ vec[1].size_ = 2 /\ vec[2].size_ = 1
    /\ PostElems(2)[1] # PostElems(1)[1]

\* C13: a successful copy assignment A = B leaves B unchanged and gives A the size and
\* the elements of B.  When B's size fits A's old capacity no block is allocated and
\* A keeps its block and capacity: the common prefix is overwritten by assignment, the
\* extra source elements are copy-constructed into raw slots, the excess elements of A
\* are destroyed once each.  Otherwise A's capacity becomes exactly B's size.  A = A
\* leaves A unchanged.
C13_CopyAssignResult ==
    Did("CopyAssign") =>
        LET a  == last.v
            b  == last.w
            sa == pre.vec[a].size_
            sb == pre.vec[b].size_
        IN /\ a = b =>
                 /\ vec = pre.vec /\ heap = pre.heap
                 /\ last.ctor = 0 /\ last.dtor = 0 /\ last.xfer = 0
           /\ a # b =>
                 /\ vec[b] = pre.vec[b]
                 /\ PostElems(b) = PreElems(b)
                 /\ vec[a].size_ = sb
                 /\ PostElems(a) = PreElems(b)
                 /\ sb <= pre.vec[a].capacity_ =>
                       /\ last.nalloc = 0 /\ last.nfree = 0
                       /\ vec[a].capacity_ = pre.vec[a].capacity_
                       /\ vec[a].buffer_ = pre.vec[a].buffer_
                       /\ last.xfer = sb
                       /\ last.ctor = Max(0, sb - sa)
                       /\ last.dtor = Max(0, sa - sb)
                       /\ \A i \in sb..(pre.vec[a].capacity_ - 1) :
                             At(heap, vec[a].buffer_, i) = Raw
                 /\ sb > pre.vec[a].capacity_ =>
                       /\ vec[a].capacity_ = sb
                       /\ last.nalloc = 1
                       /\ last.dtor = sa
                       /\ vec[a].buffer_ # vec[b].buffer_

\* a two-element array assigned a one-element array: one overwrite, one destruction
C13_Witness ==
    /\ Did("CopyAssign") /\ last.v # last.w
    /\ pre.vec[last.v].size_ = 2 /\ vec[last.w].size_ = 1
    /\ PreElems(last.v)[1] # PostElems(last.v)[1]
    /\ last.dtor = 1 /\ last.nalloc = 0

\* C14: when the value-construction of an appended element fails during a growing
\* Resize(m), m >= s, the size is still s, the elements [0, s) have their values and
\* order, and the elements this call appended have been destroyed: the slots from s
\* on hold no object and the call destroyed as many objects as it constructed.
C14_ResizeFailureKeepsElements ==
    (last.op = "Resize" /\ last.threw
        /\ last.a >= pre.vec[last.v].size_
        /\ vec[last.v].capacity_ >= last.a) =>
        LET v == last.v
        IN /\ vec[v].size_ = pre.vec[v].size_
           /\ PostElems(v) = PreElems(v)
           /\ \A i \in vec[v].size_..(vec[v].capacity_ - 1) :
                 At(heap, vec[v].buffer_, i) = Raw
           /\ last.ctor = last.dtor
           /\ last.abandoned = 0

\* a Resize from one element to four, within the capacity, that failed on the third
\* appended element after constructing two
C14_Witness ==
    /\ last.op = "Resize" /\ last.threw /\ last.a = 4
    /\ pre.vec[last.v].size_ = 1 /\ pre.vec[last.v].capacity_ = 4
    /\ last.ctor = 2 /\ last.dtor = 2

\* the steps <<step, b, i>> for i = lo, ..., hi - 1
Steps(step, b, lo, hi) == [j \in 1..(hi - lo) |-> <<step, b, lo + j - 1>>]

\* the positions of the log of the last call that hold the step e
Where(e) == {j \in 1..Len(last.log) : last.log[j] = e}

\* C15: on the growth path of PushBack/EmplaceBack and Insert/Emplace the steps come in
\* this order: the new block is allocated; the new element is constructed in its slot
\* of the new block before any existing element is read for transfer; the existing
\* elements are transferred; only after all transfers succeeded is each old element
\* destroyed, once; the buffers are swapped last.  The array's buffer and size are not
\* modified before the old elements are destroyed.
C15_GrowthStepOrder ==
    (last.op \in {"PushBack", "Insert"}
        /\ pre.vec[last.v].size_ = pre.vec[last.v].capacity_) =>
        LET v    == last.v
            L    == last.log
            ob   == pre.vec[v].buffer_
            n    == pre.vec[v].size_
            p    == IF last.op = "PushBack" THEN n ELSE last.a
            ncap == IF n = 0 THEN 1 ELSE 2 * n
            nb   == L[1][2]
            olds == {j \in 1..Len(L) : L[j][1] = "destroy" /\ L[j][2] = ob}
        IN /\ L # <<>> => L[1] = <<"allocate", nb, ncap>>
           /\ \A j \in 1..Len(L) : L[j][1] = "transfer" =>
                 /\ L[j][2] = ob
                 /\ \E i \in 1..(j - 1) : L[i] = <<"construct", nb, p>>
           /\ \A j \in olds :
                 /\ \A k \in 0..(n - 1) : \E i \in 1..(j - 1) : L[i] = <<"transfer", ob, k>>
                 /\ Cardinality(Where(L[j])) = 1
           /\ \A j \in Where(<<"swap", nb, 0>>) :
                 /\ Cardinality(olds) = n /\ \A i \in olds : i < j
                 /\ \A i \in (j + 1)..Len(L) : L[i] = <<"release", ob, 0>>
           /\ olds = {} /\ n > 0 => vec[v] = pre.vec[v]
           /\ Where(<<"swap", nb, 0>>) = {} => vec[v] = pre.vec[v]
           /\ ~last.threw =>
                 L = <<<<"allocate", nb, ncap>>, <<"construct", nb, p>>>>
                        \o Steps("transfer", ob, 0, n) \o Steps("destroy", ob, 0, n)
                        \o <<<<"swap", nb, 0>>>>
                        \o (IF ob = NULL THEN <<>> ELSE <<<<"release", ob, 0>>>>)

\* a growing Insert into the middle of two elements that ran all its eight steps
C15_Witness ==
    /\ Did("Insert") /\ last.a = 1
    /\ pre.vec[last.v].size_ = 2 /\ pre.vec[last.v].capacity_ = 2
    /\ Len(last.log) = 8
    /\ last.log[2][1] = "construct" /\ last.log[7][1] = "swap"

\* C16: under the duplication policy, when copying an existing element into the new
\* block fails on the growth path of PushBack/EmplaceBack or Insert/Emplace after the
\* new element was constructed there, the new element is destroyed before the block
\* is released: the call destroys as many objects as it constructed and abandons none
\* in released memory.  The code releases the block with the new element still in it.
C16_GrowthFailureDestroysNewElement ==
    (policy = "copy" /\ last.threw /\ last.op \in {"PushBack", "Insert"}
        /\ pre.vec[last.v].size_ = pre.vec[last.v].capacity_
        /\ \E j \in 1..Len(last.log) : last.log[j][1] = "construct") =>
        /\ last.ctor = last.dtor
        /\ last.abandoned = 0
        /\ \A j \in 1..Len(last.log) : last.log[j][1] = "release" =>
              \E i \in 1..(j - 1) :
                 last.log[i] = <<"destroy", last.log[2][2], last.log[2][3]>>

\* C17: Insert(p, v) with v a reference to element i of the same array puts at p the
\* value element i held before the call, on the in-place and on the growth path, for
\* every p in [0, s] and i in [0, s).  The in-place path of the code reads v only after
\* it has shifted the elements, so for i >= p it inserts what the shift left in slot i.
C17_InsertOfOwnElement ==
    (Did("Insert") /\ last.x >= RefBase) =>
        PostElems(last.v)[last.a + 1] = PreElems(last.v)[last.x - RefBase + 1]

\* C18: raw blocks have one owner over any sequence of construction, move
\* construction, move assignment, Swap, Reserve, growth and destruction: no two
\* buffers hold the same non-null address, no block is released twice and none is
\* accessed after its release (no buffer holds the address of a released block).
C18_SingleOwner ==
    /\ \A v \in AllVecs : \A w \in AllVecs \ {v} :
          vec[v].buffer_ # NULL => vec[v].buffer_ # vec[w].buffer_
    /\ \A v \in AllVecs : vec[v].buffer_ # NULL => heap[vec[v].buffer_].live
    /\ ~last.stale

\* one array was destroyed and released its block while the other still owns a
\* block holding two elements
C18_Witness ==
    /\ Did("~Vector") /\ last.nfree = 1
    /\ \E w \in Vecs : /\ vec[w].alive /\ vec[w].size_ = 2
                       /\ vec[w].buffer_ # NULL

\* the last operation was one that has room for what it does: PopBack, Erase, a
\* shrinking Resize, an append or insert below capacity, Reserve within the capacity
InPlace ==
    LET t == pre.vec[last.v]
    IN \/ last.op \in {"PopBack", "Erase"}
       \/ last.op = "Resize" /\ last.a < t.size_
       \/ last.op \in {"PushBack", "Insert"} /\ t.size_ < t.capacity_
       \/ last.op = "Reserve" /\ last.a <= t.capacity_

\* C19: PopBack, Erase, a shrinking Resize, an append or insert with size < capacity
\* and Reserve(c) with c <= capacity never allocate or release a block and leave the
\* capacity and the buffer's base address unchanged, so positions taken from
\* begin()/end() before the operation address the same slots afterwards.
C19_InPlaceKeepsBuffer ==
    InPlace =>
        LET v == last.v
        IN /\ last.nalloc = 0 /\ last.nfree = 0
           /\ vec[v].capacity_ = pre.vec[v].capacity_
           /\ vec[v].buffer_ = pre.vec[v].buffer_
           /\ \A b \in Blocks :
                 /\ heap[b].live = pre.heap[b].live
                 /\ Len(heap[b].slots) = Len(pre.heap[b].slots)

\* the only element of an array was popped: the array keeps its block
C19_Witness ==
    /\ Did("PopBack")
    /\ vec[last.v].size_ = 0 /\ vec[last.v].capacity_ >= 1
    /\ vec[last.v].buffer_ # NULL /\ heap[vec[last.v].buffer_].live

====
